---- MODULE Spec2Model ----
(***************************************************************************)
(* SPIROLINK backend relay (src/server.js, the server of lines 703-1050):  *)
(* startup selection of the email provider, GET /health, POST /chat and    *)
(* POST /contact.  Every async handler is cut at its awaits: one action    *)
(* runs the code from the request (or from the settled promise) up to the  *)
(* next await or to the response.                                          *)
(***************************************************************************)
EXTENDS Integers, Sequences, FiniteSets, TLC

\* ------------------------------------------------------------------ bounds
\* number of HTTP requests the model lets arrive (each request id is used once)
MaxReq == 2

Reqs == 1..MaxReq

\* ------------------------------------------------------------ JS values
\* the JS value undefined (an absent body field, an unset module variable)
Undefined == "undefined"

\* JS truthiness of a string-or-undefined value: !v is true for undefined and ""
Falsy(v) == v = Undefined \/ v = ""

\* process.env: each variable is either set to a non-empty string or not
Envs == [SENDGRID_API_KEY : BOOLEAN, RESEND_API_KEY : BOOLEAN,
         EMAIL_USER : BOOLEAN, EMAIL_PASSWORD : BOOLEAN]

\* the promise of nodemailer.createTestAccount(): never requested, pending,
\* fulfilled or rejected
TestAccountStates == {Undefined, "pending", "fulfilled", "rejected"}

\* the values emailService takes in the source
Providers == {"sendgrid", "resend", "gmail", "ethereal"}

\* the fixed operator address the notification goes to
OperatorAddress == "contact@spirolink.com"

\* reasons a provider send rejects with (err.message)
Causes == {"ETIMEDOUT", "EAUTH"}

\* ----------------------------------------------------------- request inputs
ValidBody == [name |-> "Jane Doe", email |-> "jane@example.com", phone |-> Undefined,
              serviceType |-> Undefined, message |-> "Need fiber\ninstall"]

\* bodies of POST /contact: the valid one, with and without serviceType, and
\* the valid one with each required field empty or missing
ContactBodies ==
  { ValidBody,
    [ValidBody EXCEPT !.serviceType = "Fiber", !.email = "bob@example.org"],
    [ValidBody EXCEPT !.name = ""],
    [ValidBody EXCEPT !.name = Undefined],
    [ValidBody EXCEPT !.email = ""],
    [ValidBody EXCEPT !.email = Undefined],
    [ValidBody EXCEPT !.message = ""],
    [ValidBody EXCEPT !.message = Undefined],
    [ValidBody EXCEPT !.name = Undefined, !.email = Undefined, !.message = Undefined] }

\* bodies of POST /chat: message missing, empty, blank, or text
ChatMessages == {Undefined, "", "  ", " hello "}

\* what the upstream completion carries as choices[0]?.message?.content
CompletionContents == {Undefined, "", "Hi there"}

\* error.status of a rejected upstream completion call
UpstreamStatuses == {401, 429, 500}

\* a request that has not arrived
NoBody == [message |-> Undefined]

\* a request slot: kind and pc give the handler and its position, body the
\* parsed req.body, branch the provider branch the contact handler entered,
\* sends the provider calls it issued, logged its console output in the
\* disabled branch, upstreamCalls/upstreamStatus/completion the completion call
\* of a chat request and what it came back with, responses what it wrote to
\* res, seen the value of emailService the handler read when it ran (line 814
\* for /health, line 902 for /contact)
IdleReq == [kind |-> "none", pc |-> "idle", body |-> NoBody, branch |-> "none",
            seen |-> "unread",
            sends |-> << >>, logged |-> << >>, upstreamCalls |-> 0,
            upstreamStatus |-> 0, completion |-> Undefined, responses |-> << >>]

\* setupThrew: the set-up of a client (sgMail.setApiKey, new Resend,
\* nodemailer.createTransport) threw during the selection and a catch of
\* initializeEmailTransport took over
VARIABLES env, emailService, transporter, resend, sgApiKeySet, initPc, testAccount,
          setupThrew, req

vars == <<env, emailService, transporter, resend, sgApiKeySet, initPc, testAccount,
          setupThrew, req>>

providerState == <<emailService, transporter, resend, sgApiKeySet>>

\* state after lines 703-739: the module variables are declared, the selection
\* has not run yet, no request has been accepted
Init ==
  /\ env \in Envs
  /\ emailService = "none"
  /\ transporter = Undefined
  /\ resend = Undefined
  /\ sgApiKeySet = FALSE
  /\ initPc = "start"
  /\ testAccount = Undefined
  /\ setupThrew = FALSE
  /\ req = [r \in Reqs |-> IdleReq]

\* ------------------------------------------------------- startup selection
\* a selection that looks at the Resend key before the SendGrid key
InitializeEmailTransportResendFirst ==
  /\ initPc = "start"
  /\ UNCHANGED <<env, req, setupThrew>>
  /\ testAccount' = IF env.SENDGRID_API_KEY \/ env.RESEND_API_KEY
                       \/ (env.EMAIL_USER /\ env.EMAIL_PASSWORD)
                    THEN testAccount ELSE "pending"
  /\ IF env.RESEND_API_KEY
       THEN /\ resend' = "resendClient"
            /\ emailService' = "resend"
            /\ initPc' = "done"
            /\ UNCHANGED <<transporter, sgApiKeySet>>
     ELSE IF env.SENDGRID_API_KEY
       THEN /\ sgApiKeySet' = TRUE
            /\ emailService' = "sendgrid"
            /\ initPc' = "done"
            /\ UNCHANGED <<transporter, resend>>
     ELSE IF env.EMAIL_USER /\ env.EMAIL_PASSWORD
       THEN /\ transporter' = "gmailTransport"
            /\ emailService' = "gmail"
            /\ initPc' = "done"
            /\ UNCHANGED <<resend, sgApiKeySet>>
     ELSE /\ initPc' = "awaitTestAccount"
          /\ UNCHANGED <<emailService, transporter, resend, sgApiKeySet>>

\* a selection that drops the mail account as if a connectivity check had
\* failed, and goes on to the Ethereal step
InitializeEmailTransportDropsGmail ==
  /\ initPc = "start"
  /\ UNCHANGED <<env, req, setupThrew>>
  /\ testAccount' = IF env.SENDGRID_API_KEY \/ env.RESEND_API_KEY
                    THEN testAccount ELSE "pending"
  /\ IF env.SENDGRID_API_KEY
       THEN /\ sgApiKeySet' = TRUE
            /\ emailService' = "sendgrid"
            /\ initPc' = "done"
            /\ UNCHANGED <<transporter, resend>>
     ELSE IF env.RESEND_API_KEY
       THEN /\ resend' = "resendClient"
            /\ emailService' = "resend"
            /\ initPc' = "done"
            /\ UNCHANGED <<transporter, sgApiKeySet>>
     ELSE /\ initPc' = "awaitTestAccount"
          /\ UNCHANGED <<emailService, transporter, resend, sgApiKeySet>>

\* initializeEmailTransport up to its first await (or its return).  The
\* set-up of the client of the chosen provider either returns or throws; a
\* throw is caught by the outer catch (795-798), which selects 'disabled' and
\* leaves the client unset.  With nothing configured no client is set up before
\* the await of createTestAccount.
InitializeEmailTransport ==
  /\ initPc = "start"
  /\ UNCHANGED <<env, req>>
  /\ \E throws \in BOOLEAN :
       IF throws /\ (env.SENDGRID_API_KEY \/ env.RESEND_API_KEY
                      \/ (env.EMAIL_USER /\ env.EMAIL_PASSWORD))
         THEN /\ emailService' = "disabled"
              /\ initPc' = "done"
              /\ setupThrew' = TRUE
              /\ UNCHANGED <<transporter, resend, sgApiKeySet, testAccount>>
       ELSE IF env.SENDGRID_API_KEY
         THEN /\ sgApiKeySet' = TRUE
              /\ emailService' = "sendgrid"
              /\ initPc' = "done"
              /\ UNCHANGED <<transporter, resend, testAccount, setupThrew>>
       ELSE IF env.RESEND_API_KEY
         THEN /\ resend' = "resendClient"
              /\ emailService' = "resend"
              /\ initPc' = "done"
              /\ UNCHANGED <<transporter, sgApiKeySet, testAccount, setupThrew>>
       ELSE IF env.EMAIL_USER /\ env.EMAIL_PASSWORD
         THEN /\ transporter' = "gmailTransport"
              /\ emailService' = "gmail"
              /\ initPc' = "done"
              /\ UNCHANGED <<resend, sgApiKeySet, testAccount, setupThrew>>
       ELSE /\ initPc' = "awaitTestAccount"
            /\ testAccount' = "pending"
            /\ UNCHANGED <<emailService, transporter, resend, sgApiKeySet, setupThrew>>

\* nodemailer.createTestAccount() resolved: the Ethereal transport is created
\* and selected, or createTransport throws and the inner catch (791-794)
\* disables email
CreateTestAccountResolves ==
  /\ initPc = "awaitTestAccount"
  /\ initPc' = "done"
  /\ testAccount' = "fulfilled"
  /\ UNCHANGED <<env, resend, sgApiKeySet, req>>
  /\ \E throws \in BOOLEAN :
       IF throws
         THEN /\ emailService' = "disabled"
              /\ setupThrew' = TRUE
              /\ UNCHANGED transporter
         ELSE /\ transporter' = "etherealTransport"
              /\ emailService' = "ethereal"
              /\ UNCHANGED setupThrew

\* an inner catch that starts the selection over after a failed creation
CreateTestAccountRejectsRetries ==
  /\ initPc = "awaitTestAccount"
  /\ initPc' = "start"
  /\ testAccount' = "rejected"
  /\ UNCHANGED <<env, emailService, transporter, resend, sgApiKeySet, req, setupThrew>>

\* an inner catch that falls back to a generic Ethereal transport instead of
\* disabling email
CreateTestAccountRejectsGeneric ==
  /\ initPc = "awaitTestAccount"
  /\ transporter' = "etherealTransport"
  /\ emailService' = "ethereal"
  /\ initPc' = "done"
  /\ testAccount' = "rejected"
  /\ UNCHANGED <<env, resend, sgApiKeySet, req, setupThrew>>

\* nodemailer.createTestAccount() rejected: the inner catch disables email
CreateTestAccountRejects ==
  /\ initPc = "awaitTestAccount"
  /\ emailService' = "disabled"
  /\ initPc' = "done"
  /\ testAccount' = "rejected"
  /\ UNCHANGED <<env, transporter, resend, sgApiKeySet, req, setupThrew>>

\* a server that takes no new request while a provider send is in flight
ServingOneAtATime ==
  /\ initPc # "start"
  /\ \A r \in Reqs : req[r].pc \notin {"awaitNotification", "awaitConfirmation"}

\* requests are handled only after the module body has run (app.listen is its
\* last statement); the pending test-account round trip does not hold them back
Serving == initPc # "start"

\* --------------------------------------------------------------- GET /health
HealthResponse ==
  [status |-> 200, statusText |-> "OK", backend |-> "SPIROLINK",
   emailService |-> emailService, openaiConfigured |-> TRUE]

HealthRequest(r) ==
  /\ Serving
  /\ req[r].pc = "idle"
  /\ req' = [req EXCEPT ![r] = [@ EXCEPT !.kind = "health", !.pc = "done",
                                        !.seen = emailService,
                                        !.responses = <<HealthResponse>>]]
  /\ UNCHANGED <<env, emailService, transporter, resend, sgApiKeySet, initPc, testAccount, setupThrew>>

\* ---------------------------------------------------------------- POST /chat
\* String.prototype.trim on the chat inputs
Trim(m) ==
  IF m = "  " THEN ""
  ELSE IF m = " hello " THEN "hello"
  ELSE m

\* a check that does not trim: a blank message counts as text
ChatMessageMissingNoTrim(m) == Falsy(m)

\* !message || message.trim() === ""
ChatMessageMissing(m) == Falsy(m) \/ Trim(m) = ""

\* the handler up to await openai.chat.completions.create(...)
ChatRequest(r, m) ==
  /\ Serving
  /\ req[r].pc = "idle"
  /\ IF ChatMessageMissing(m)
       THEN req' = [req EXCEPT ![r] = [@ EXCEPT
                !.kind = "chat", !.pc = "done", !.body = [message |-> m],
                !.responses = << [status |-> 400, success |-> FALSE,
                                  error |-> <<"Message is required">>] >>]]
       ELSE req' = [req EXCEPT ![r] = [@ EXCEPT
                !.kind = "chat", !.pc = "awaitCompletion", !.body = [message |-> m],
                !.upstreamCalls = @ + 1]]
  /\ UNCHANGED <<env, emailService, transporter, resend, sgApiKeySet, initPc, testAccount, setupThrew>>

\* the completion call resolved with the given content of its first choice
ChatCompletionResolves(r, content) ==
  /\ req[r].kind = "chat"
  /\ req[r].pc = "awaitCompletion"
  /\ req' = [req EXCEPT ![r] = [@ EXCEPT
        !.pc = "done", !.upstreamStatus = 200, !.completion = content,
        !.responses = Append(@,
           IF Falsy(content)
             THEN [status |-> 500, success |-> FALSE,
                   error |-> <<"No response from OpenAI">>]
             ELSE [status |-> 200, success |-> TRUE, reply |-> content])]]
  /\ UNCHANGED <<env, emailService, transporter, resend, sgApiKeySet, initPc, testAccount, setupThrew>>

\* the completion call rejected with an error of the given status
ChatCompletionRejects(r, st) ==
  /\ req[r].kind = "chat"
  /\ req[r].pc = "awaitCompletion"
  /\ req' = [req EXCEPT ![r] = [@ EXCEPT
        !.pc = "done", !.upstreamStatus = st,
        !.responses = Append(@, [status |-> 500, success |-> FALSE,
                                 error |-> <<"upstream error">>])]]
  /\ UNCHANGED <<env, emailService, transporter, resend, sgApiKeySet, initPc, testAccount, setupThrew>>

\* ------------------------------------------------------------- POST /contact
\* a || b on string-or-undefined values
OrElse(v, d) == IF Falsy(v) THEN d ELSE v

\* message.replace(/\n/g, "<br>") on the contact inputs
NlToBr(m) == IF m = "Need fiber\ninstall" THEN "Need fiber<br>install" ELSE m

\* a validation guard that forgets the message field
MissingRequiredNoMessage(body) == Falsy(body.name) \/ Falsy(body.email)

\* the validation guard: !name || !email || !message
MissingRequired(body) == Falsy(body.name) \/ Falsy(body.email) \/ Falsy(body.message)

\* the emailBody template
EmailBody(body) ==
  [template |-> "New Contact Form Submission", name |-> body.name, email |-> body.email,
   phone |-> OrElse(body.phone, "N/A"), service |-> OrElse(body.serviceType, "N/A"),
   message |-> NlToBr(body.message), replyTo |-> body.email]

\* the confirmationBody template
ConfirmationBody(body) == [template |-> "Hello", name |-> body.name]

\* the from address each provider branch uses
FromAddress(b) ==
  IF b = "gmail" THEN "EMAIL_USER"
  ELSE IF b = "ethereal" THEN "noreply@spirolink.test"
  ELSE "noreply@spirolink.com"

\* the first message of a branch: the operator notification
NotificationMessage(b, body) ==
  [from |-> FromAddress(b), to |-> OperatorAddress,
   subject |-> <<"New Contact Form - ", OrElse(body.serviceType, "General")>>,
   html |-> EmailBody(body)]

\* the second message of a branch: the confirmation to the submitter
ConfirmationMessage(b, body) ==
  [from |-> FromAddress(b), to |-> body.email,
   subject |-> <<"We received your message - SPIROLINK">>,
   html |-> ConfirmationBody(body)]

\* the chain without its disabled branch: 'disabled' falls into the final else
SelectBranchNoDisabled ==
  IF emailService = "sendgrid" THEN "sendgrid"
  ELSE IF emailService = "resend" /\ resend # Undefined THEN "resend"
  ELSE IF emailService = "gmail" /\ transporter # Undefined THEN "gmail"
  ELSE IF emailService = "ethereal" /\ transporter # Undefined THEN "ethereal"
  ELSE "uninitialized"

\* the if / else-if chain on emailService and the client handles
SelectBranch ==
  IF emailService = "sendgrid" THEN "sendgrid"
  ELSE IF emailService = "resend" /\ resend # Undefined THEN "resend"
  ELSE IF emailService = "gmail" /\ transporter # Undefined THEN "gmail"
  ELSE IF emailService = "ethereal" /\ transporter # Undefined THEN "ethereal"
  ELSE IF emailService = "disabled" THEN "disabled"
  ELSE "uninitialized"

\* the client object a branch calls, read when the call is made
ClientOf(b) ==
  IF b = "sendgrid" THEN "sgMail"
  ELSE IF b = "resend" THEN resend
  ELSE transporter

\* one provider call in flight
SendCall(b, msg) == [via |-> ClientOf(b), msg |-> msg, status |-> "pending"]

\* every catch copied from the SendGrid branch, message included
FailurePrefixCopied(b) == "SendGrid failed"

\* the message each branch's catch wraps the provider error in
FailurePrefix(b) ==
  IF b = "sendgrid" THEN "SendGrid failed"
  ELSE IF b = "resend" THEN "Resend API failed"
  ELSE IF b = "gmail" THEN "Gmail SMTP failed"
  ELSE "Ethereal SMTP failed"

ValidationResponse ==
  [status |-> 400, success |-> FALSE,
   error |-> <<"Name, email, and message are required">>]

DisabledResponse ==
  [status |-> 200, success |-> TRUE,
   message |-> "Message received (email service currently disabled)",
   service |-> "disabled",
   warning |-> "Configure SENDGRID_API_KEY, RESEND_API_KEY, or EMAIL_USER/PASSWORD"]

\* a final res.json with the service name copied from the SendGrid branch
SuccessResponseCopied ==
  [status |-> 200, success |-> TRUE, message |-> "Email sent successfully",
   service |-> "sendgrid"]

\* the final res.json: service is the value of emailService at that moment
SuccessResponse ==
  [status |-> 200, success |-> TRUE, message |-> "Email sent successfully",
   service |-> emailService]

\* the outer catch: 500 with "Failed to send email: " + error.message
FailureResponse(errorMessage) ==
  [status |-> 500, success |-> FALSE,
   error |-> <<"Failed to send email">> \o errorMessage]

\* what the disabled branch writes to the console
DisabledLog(body) ==
  << <<"To:", OperatorAddress>>,
     <<"Subject:", <<"New Contact Form - ", OrElse(body.serviceType, "General")>> >>,
     <<"Body:", EmailBody(body)>>,
     <<"Confirmation to:", body.email>> >>

\* a handler that answers a repeated submission from the success of an earlier
\* identical one instead of dispatching it again
ContactRequestDeduplicates(r, body) ==
  /\ Serving
  /\ req[r].pc = "idle"
  /\ LET b == SelectBranch
         arrived == [req[r] EXCEPT !.kind = "contact", !.body = body]
         branched == [arrived EXCEPT !.seen = emailService, !.branch = b]
         repeated == \E o \in Reqs \ {r} :
                       /\ req[o].kind = "contact" /\ req[o].body = body
                       /\ req[o].pc = "done" /\ Len(req[o].sends) = 2
                       /\ req[o].sends[2].status = "ok"
     IN
     IF MissingRequired(body)
       THEN req' = [req EXCEPT ![r] = [arrived EXCEPT
                      !.pc = "done", !.responses = <<ValidationResponse>>]]
     ELSE IF b \in Providers /\ repeated
       THEN req' = [req EXCEPT ![r] = [branched EXCEPT
                      !.pc = "done", !.responses = <<SuccessResponse>>]]
     ELSE IF b \in Providers
       THEN req' = [req EXCEPT ![r] = [branched EXCEPT
                      !.pc = "awaitNotification",
                      !.sends = <<SendCall(b, NotificationMessage(b, body))>>]]
     ELSE IF b = "disabled"
       THEN req' = [req EXCEPT ![r] = [branched EXCEPT
                      !.pc = "done", !.logged = DisabledLog(body),
                      !.responses = <<DisabledResponse>>]]
     ELSE req' = [req EXCEPT ![r] = [branched EXCEPT
                      !.pc = "done",
                      !.responses = <<FailureResponse(
                           <<"Email service not properly initialized">>)>>]]
  /\ UNCHANGED <<env, emailService, transporter, resend, sgApiKeySet, initPc, testAccount, setupThrew>>

\* the handler from the request up to its first await, or to its response
ContactRequest(r, body) ==
  /\ Serving
  /\ req[r].pc = "idle"
  /\ LET b == SelectBranch
         arrived == [req[r] EXCEPT !.kind = "contact", !.body = body]
         branched == [arrived EXCEPT !.seen = emailService, !.branch = b]
     IN
     IF MissingRequired(body)
       THEN req' = [req EXCEPT ![r] = [arrived EXCEPT
                      !.pc = "done", !.responses = <<ValidationResponse>>]]
     ELSE IF b \in Providers
       THEN req' = [req EXCEPT ![r] = [branched EXCEPT
                      !.pc = "awaitNotification",
                      !.sends = <<SendCall(b, NotificationMessage(b, body))>>]]
     ELSE IF b = "disabled"
       THEN req' = [req EXCEPT ![r] = [branched EXCEPT
                      !.pc = "done", !.logged = DisabledLog(body),
                      !.responses = <<DisabledResponse>>]]
     ELSE req' = [req EXCEPT ![r] = [branched EXCEPT
                      !.pc = "done",
                      !.responses = <<FailureResponse(
                           <<"Email service not properly initialized">>)>>]]
  /\ UNCHANGED <<env, emailService, transporter, resend, sgApiKeySet, initPc, testAccount, setupThrew>>

\* a resolve step that answers success right after the notification
ContactSendResolvesNoConfirmation(r) ==
  /\ req[r].kind = "contact"
  /\ req[r].pc \in {"awaitNotification", "awaitConfirmation"}
  /\ LET n == Len(req[r].sends)
         settled == [req[r] EXCEPT !.sends[n].status = "ok"]
     IN
     req' = [req EXCEPT ![r] = [settled EXCEPT
               !.pc = "done", !.responses = Append(@, SuccessResponse)]]
  /\ UNCHANGED <<env, emailService, transporter, resend, sgApiKeySet, initPc, testAccount, setupThrew>>

\* the pending provider call of request r resolved: after the notification the
\* confirmation is issued, after the confirmation the success response is written
ContactSendResolves(r) ==
  /\ req[r].kind = "contact"
  /\ req[r].pc \in {"awaitNotification", "awaitConfirmation"}
  /\ LET n == Len(req[r].sends)
         settled == [req[r] EXCEPT !.sends[n].status = "ok"]
     IN
     IF req[r].pc = "awaitNotification"
       THEN req' = [req EXCEPT ![r] = [settled EXCEPT
                      !.pc = "awaitConfirmation",
                      !.sends = Append(@, SendCall(req[r].branch,
                                   ConfirmationMessage(req[r].branch, req[r].body)))]]
       ELSE req' = [req EXCEPT ![r] = [settled EXCEPT
                      !.pc = "done", !.responses = Append(@, SuccessResponse)]]
  /\ UNCHANGED <<env, emailService, transporter, resend, sgApiKeySet, initPc, testAccount, setupThrew>>

\* a reject step whose branch catch already answers 500 before it rethrows
\* into the outer catch, which answers again
ContactSendRejectsAnswersTwice(r, cause) ==
  /\ req[r].kind = "contact"
  /\ req[r].pc \in {"awaitNotification", "awaitConfirmation"}
  /\ LET n == Len(req[r].sends)
         settled == [req[r] EXCEPT !.sends[n].status = "failed"]
         answer == FailureResponse(<<FailurePrefix(req[r].branch), cause>>)
     IN
     req' = [req EXCEPT ![r] = [settled EXCEPT
               !.pc = "done",
               !.responses = Append(Append(@, answer), answer)]]
  /\ UNCHANGED <<env, emailService, transporter, resend, sgApiKeySet, initPc, testAccount, setupThrew>>

\* a reject step that swallows a failed notification and goes on to the
\* confirmation (a try/catch around each send)
ContactSendRejectsContinues(r, cause) ==
  /\ req[r].kind = "contact"
  /\ req[r].pc \in {"awaitNotification", "awaitConfirmation"}
  /\ LET n == Len(req[r].sends)
         settled == [req[r] EXCEPT !.sends[n].status = "failed"]
     IN
     IF req[r].pc = "awaitNotification"
       THEN req' = [req EXCEPT ![r] = [settled EXCEPT
                      !.pc = "awaitConfirmation",
                      !.sends = Append(@, SendCall(req[r].branch,
                                   ConfirmationMessage(req[r].branch, req[r].body)))]]
       ELSE req' = [req EXCEPT ![r] = [settled EXCEPT
                      !.pc = "done",
                      !.responses = Append(@, FailureResponse(
                                        <<FailurePrefix(req[r].branch), cause>>))]]
  /\ UNCHANGED <<env, emailService, transporter, resend, sgApiKeySet, initPc, testAccount, setupThrew>>

\* a reject step that also switches the service off after a failed send
ContactSendRejectsDisables(r, cause) ==
  /\ req[r].kind = "contact"
  /\ req[r].pc \in {"awaitNotification", "awaitConfirmation"}
  /\ LET n == Len(req[r].sends)
         settled == [req[r] EXCEPT !.sends[n].status = "failed"]
     IN
     req' = [req EXCEPT ![r] = [settled EXCEPT
               !.pc = "done",
               !.responses = Append(@, FailureResponse(
                                 <<FailurePrefix(req[r].branch), cause>>))]]
  /\ emailService' = "disabled"
  /\ UNCHANGED <<env, transporter, resend, sgApiKeySet, initPc, testAccount, setupThrew>>

\* the pending provider call of request r rejected: the branch's catch rethrows
\* with the provider's name and the outer catch answers 500
ContactSendRejects(r, cause) ==
  /\ req[r].kind = "contact"
  /\ req[r].pc \in {"awaitNotification", "awaitConfirmation"}
  /\ LET n == Len(req[r].sends)
         settled == [req[r] EXCEPT !.sends[n].status = "failed"]
     IN
     req' = [req EXCEPT ![r] = [settled EXCEPT
               !.pc = "done",
               !.responses = Append(@, FailureResponse(
                                 <<FailurePrefix(req[r].branch), cause>>))]]
  /\ UNCHANGED <<env, emailService, transporter, resend, sgApiKeySet, initPc, testAccount, setupThrew>>

Next ==
  \/ InitializeEmailTransport
  \/ CreateTestAccountResolves
  \/ CreateTestAccountRejects
  \/ \E r \in Reqs : HealthRequest(r)
  \/ \E r \in Reqs, m \in ChatMessages : ChatRequest(r, m)
  \/ \E r \in Reqs, content \in CompletionContents : ChatCompletionResolves(r, content)
  \/ \E r \in Reqs, st \in UpstreamStatuses : ChatCompletionRejects(r, st)
  \/ \E r \in Reqs, body \in ContactBodies : ContactRequest(r, body)
  \/ \E r \in Reqs : ContactSendResolves(r)
  \/ \E r \in Reqs, cause \in Causes : ContactSendRejects(r, cause)

Spec == Init /\ [][Next]_vars

\* every provider call that is in flight settles: it resolves or it rejects
ProviderCallSettles(r) ==
  ContactSendResolves(r) \/ \E cause \in Causes : ContactSendRejects(r, cause)

\* the server with provider calls that always return or fail
FairSpec == Spec /\ \A r \in Reqs : WF_vars(ProviderCallSettles(r))

\* ================================================================= properties
\* the provider a client object belongs to
ProviderOfClient(c) ==
  IF c = "sgMail" THEN "sendgrid"
  ELSE IF c = "resendClient" THEN "resend"
  ELSE IF c = "gmailTransport" THEN "gmail"
  ELSE IF c = "etherealTransport" THEN "ethereal"
  ELSE "no provider"

\* the provider an error message names
ProviderNamedBy(text) ==
  IF text = "SendGrid failed" THEN "sendgrid"
  ELSE IF text = "Resend API failed" THEN "resend"
  ELSE IF text = "Gmail SMTP failed" THEN "gmail"
  ELSE IF text = "Ethereal SMTP failed" THEN "ethereal"
  ELSE "no provider"

IsContact(r) == req[r].kind = "contact"

\* name, email or message of the request is missing or empty
HasMissingField(r) ==
  \/ req[r].body.name \in {Undefined, ""}
  \/ req[r].body.email \in {Undefined, ""}
  \/ req[r].body.message \in {Undefined, ""}

ValidContact(r) == IsContact(r) /\ ~HasMissingField(r)

\* request r was answered exactly once, with a 500 failure
Answered500(r) ==
  /\ req[r].pc = "done"
  /\ Len(req[r].responses) = 1
  /\ req[r].responses[1].status = 500
  /\ req[r].responses[1].success = FALSE

\* request r was answered exactly once, with the degraded success of the
\* disabled service
AnsweredDisabled(r) ==
  /\ req[r].pc = "done"
  /\ Len(req[r].responses) = 1
  /\ req[r].responses[1].status = 200
  /\ req[r].responses[1].success = TRUE
  /\ req[r].responses[1].service = "disabled"
  /\ "warning" \in DOMAIN req[r].responses[1]
  /\ req[r].responses[1].warning # ""

\* C1: a POST /contact whose name, email or message is missing or empty is
\* answered 400 with success:false and issues no provider send, whatever the
\* value of emailService.
C1_InvalidContactNoSend ==
  \A r \in Reqs :
    (IsContact(r) /\ HasMissingField(r)) =>
       /\ req[r].pc = "done"
       /\ req[r].sends = << >>
       /\ Len(req[r].responses) = 1
       /\ req[r].responses[1].status = 400
       /\ req[r].responses[1].success = FALSE

\* an invalid request was answered while a real provider was selected
C1_Witness ==
  \E r \in Reqs :
    /\ IsContact(r) /\ HasMissingField(r)
    /\ req[r].body.name = "Jane Doe" /\ req[r].body.email = "jane@example.com"
    /\ req[r].pc = "done"
    /\ emailService = "sendgrid"

\* C2: a valid POST /contact handled while a usable provider is selected sends
\* the operator notification first and the submitter confirmation second, both
\* through that provider, the confirmation only once the notification has
\* completed; when no send fails it ends with exactly these two sends and the
\* success response.
C2_TwoSendsInOrder ==
  \A r \in Reqs :
    (ValidContact(r) /\ req[r].seen \in Providers) =>
       LET sends == req[r].sends IN
       /\ Len(sends) \in 1..2
       /\ sends[1].msg.to = OperatorAddress
       /\ sends[1].msg.html.template = "New Contact Form Submission"
       /\ ProviderOfClient(sends[1].via) = req[r].seen
       /\ Len(sends) = 2 =>
            /\ sends[1].status = "ok"
            /\ sends[2].msg.to = req[r].body.email
            /\ sends[2].msg.html.template = "Hello"
            /\ ProviderOfClient(sends[2].via) = req[r].seen
       /\ (req[r].pc = "done" /\ \A i \in 1..Len(sends) : sends[i].status = "ok") =>
            /\ Len(sends) = 2
            /\ Len(req[r].responses) = 1
            /\ req[r].responses[1].status = 200
            /\ req[r].responses[1].success = TRUE
       /\ req[r].pc # "done" => sends[Len(sends)].status = "pending"

\* a valid request finished with both sends delivered through Resend
C2_Witness ==
  \E r \in Reqs :
    /\ ValidContact(r) /\ req[r].seen = "resend"
    /\ req[r].pc = "done"
    /\ Len(req[r].sends) = 2
    /\ req[r].sends[1].status = "ok" /\ req[r].sends[2].status = "ok"

\* C3: when the operator notification of a valid POST /contact fails, no
\* confirmation is ever issued for the request and it is answered with a 500
\* failure, never with a success.
C3_FailedNotificationStops ==
  \A r \in Reqs :
    (ValidContact(r) /\ Len(req[r].sends) >= 1 /\ req[r].sends[1].status = "failed") =>
       /\ Len(req[r].sends) = 1
       /\ Answered500(r)

\* the notification of a valid request failed at the Gmail transport
C3_Witness ==
  \E r \in Reqs :
    /\ ValidContact(r) /\ req[r].seen = "gmail"
    /\ Len(req[r].sends) = 1
    /\ req[r].sends[1].status = "failed"

\* C4: all sends of one POST /contact go through the provider selected when the
\* request branched; after a failed send (first or second) nothing more is
\* sent, nothing is repeated, and the request is answered 500 with an error
\* that names that provider.
C4_NoFallbackNoRetry ==
  \A r \in Reqs :
    (IsContact(r) /\ req[r].sends # << >>) =>
       LET sends == req[r].sends IN
       /\ req[r].branch \in Providers
       /\ Len(sends) <= 2
       /\ \A i \in 1..Len(sends) : ProviderOfClient(sends[i].via) = req[r].branch
       /\ \A i, j \in 1..Len(sends) : i # j => sends[i].msg # sends[j].msg
       /\ \A i \in 1..Len(sends) :
            sends[i].status = "failed" =>
              /\ i = Len(sends)
              /\ Answered500(r)
              /\ Len(req[r].responses[1].error) = 3
              /\ ProviderNamedBy(req[r].responses[1].error[2]) = req[r].branch

\* the confirmation failed at the Ethereal transport after the notification
\* had been delivered
C4_Witness ==
  \E r \in Reqs :
    /\ IsContact(r) /\ req[r].branch = "ethereal"
    /\ Len(req[r].sends) = 2
    /\ req[r].sends[1].status = "ok"
    /\ req[r].sends[2].status = "failed"

\* C5: a valid POST /contact handled while emailService is 'disabled' issues
\* no provider send and is answered 200 with success:true, service:'disabled'
\* and a non-empty warning.
C5_DisabledIsDegradedSuccess ==
  \A r \in Reqs :
    (ValidContact(r) /\ req[r].seen = "disabled") =>
       /\ req[r].sends = << >>
       /\ AnsweredDisabled(r)

\* a valid request was handled with email disabled
C5_Witness ==
  \E r \in Reqs :
    /\ ValidContact(r) /\ req[r].seen = "disabled"
    /\ req[r].pc = "done"


\* no SendGrid key, no Resend key, no mail-account username/secret pair
NoConfiguration ==
  /\ ~env.SENDGRID_API_KEY
  /\ ~env.RESEND_API_KEY
  /\ ~(env.EMAIL_USER /\ env.EMAIL_PASSWORD)

\* request r is a valid contact request handled after the selection completed
HandledAfterSelection(r) == ValidContact(r) /\ req[r].seen # "none"

\* request r is a valid contact request handled while the selection was pending
HandledDuringSelection(r) == ValidContact(r) /\ req[r].seen = "none"

\* request r logged the given value under one of the given labels
Logged(r, labels, value) ==
  \E i \in 1..Len(req[r].logged) :
    req[r].logged[i][1] \in labels /\ req[r].logged[i][2] = value

\* C6 as stated: with no provider configuration the selection ends in
\* 'disabled', and every valid POST /contact handled afterwards sends nothing
\* and gets the Disabled outcome carrying both rendered messages.
C6_NoConfigurationDisabled ==
  (NoConfiguration /\ initPc = "done") =>
     /\ emailService = "disabled"
     /\ \A r \in Reqs :
          HandledAfterSelection(r) =>
             /\ req[r].sends = << >>
             /\ AnsweredDisabled(r)
             /\ Logged(r, {"Body:"}, EmailBody(req[r].body))
             /\ Logged(r, {"Confirmation:", "Confirmation body:"},
                       ConfirmationBody(req[r].body))

\* C6 amended: with no provider configuration the selection ends in 'ethereal'
\* when the Ethereal test account and its transport could be created and in
\* 'disabled' only when the creation of the account failed or the set-up of
\* the transport threw; a valid POST /contact handled after it ended in
\* 'disabled' sends nothing, gets the Disabled outcome and logs the rendered
\* notification and the confirmation recipient; one handled after it ended in
\* 'ethereal' sends through the Ethereal transport.
C6_NoConfigurationEtherealOrDisabled ==
  (NoConfiguration /\ initPc = "done") =>
     /\ testAccount \in {"fulfilled", "rejected"}
     /\ (testAccount = "fulfilled" /\ ~setupThrew) =>
            (emailService = "ethereal" /\ transporter = "etherealTransport")
     /\ (testAccount = "rejected" \/ setupThrew) =>
            (emailService = "disabled" /\ transporter = Undefined)
     /\ \A r \in Reqs :
          HandledAfterSelection(r) =>
             /\ req[r].seen = emailService
             /\ req[r].seen = "disabled" =>
                  /\ req[r].sends = << >>
                  /\ AnsweredDisabled(r)
                  /\ DOMAIN req[r].responses[1] =
                       {"status", "success", "message", "service", "warning"}
                  /\ Logged(r, {"Body:"}, EmailBody(req[r].body))
                  /\ Logged(r, {"Confirmation to:"}, req[r].body.email)
             /\ req[r].seen = "ethereal" =>
                  /\ req[r].sends # << >>
                  /\ \A i \in 1..Len(req[r].sends) :
                       req[r].sends[i].via = "etherealTransport"

\* with no configuration the test account failed and a valid request was
\* then handled
C6_Witness ==
  /\ NoConfiguration
  /\ testAccount = "rejected"
  /\ \E r \in Reqs : HandledAfterSelection(r) /\ req[r].pc = "done"

\* the provider the priority order of the specification selects
SelectedBySpecOrder ==
  IF env.SENDGRID_API_KEY THEN "sendgrid"
  ELSE IF env.RESEND_API_KEY THEN "resend"
  ELSE IF env.EMAIL_USER /\ env.EMAIL_PASSWORD THEN "gmail"
  ELSE "disabled"

\* the provider the priority order with the Ethereal step selects; a client
\* set-up that throws ends the selection in 'disabled'
SelectedByCodeOrder ==
  IF setupThrew THEN "disabled"
  ELSE IF env.SENDGRID_API_KEY THEN "sendgrid"
  ELSE IF env.RESEND_API_KEY THEN "resend"
  ELSE IF env.EMAIL_USER /\ env.EMAIL_PASSWORD THEN "gmail"
  ELSE IF testAccount = "fulfilled" THEN "ethereal"
  ELSE "disabled"

\* exactly one provider is selected: the client of the selected provider is
\* set up and no other client is
ExactlyOneSelected ==
  /\ emailService \in Providers \cup {"disabled"}
  /\ sgApiKeySet <=> emailService = "sendgrid"
  /\ resend # Undefined <=> emailService = "resend"
  /\ transporter = "gmailTransport" <=> emailService = "gmail"
  /\ transporter = "etherealTransport" <=> emailService = "ethereal"

\* C7 as stated: once the selection has completed the selected provider is the
\* first of SendGrid key, Resend key, mail username and secret, DISABLED whose
\* configuration is present, and exactly one provider is selected.
C7_PriorityOrderOfSpec ==
  initPc = "done" => (emailService = SelectedBySpecOrder /\ ExactlyOneSelected)

\* C7 amended: once the selection has completed the selected provider is the
\* first of SendGrid key, Resend key, mail username and secret, Ethereal test
\* account (created when none of the three is configured), DISABLED (only when
\* that creation failed) whose requirement is met, or DISABLED when the set-up
\* of that provider's client threw, and exactly one provider is selected.
C7_PriorityOrderWithEthereal ==
  initPc = "done" => (emailService = SelectedByCodeOrder /\ ExactlyOneSelected)

\* Resend was selected although the lower-priority mail account is configured
C7_Witness ==
  /\ initPc = "done"
  /\ ~env.SENDGRID_API_KEY /\ env.RESEND_API_KEY
  /\ env.EMAIL_USER /\ env.EMAIL_PASSWORD
  /\ emailService = "resend"

\* C8: a valid POST /contact handled while the startup selection is pending
\* is treated as disabled: it issues no send and gets the Disabled degraded
\* success, not an error.
C8_PendingSelectionIsDisabled ==
  \A r \in Reqs :
    HandledDuringSelection(r) =>
       /\ req[r].sends = << >>
       /\ AnsweredDisabled(r)

\* the client of the selected provider is set whenever a provider is selected
ClientSetForProvider ==
  /\ emailService = "sendgrid" => sgApiKeySet
  /\ emailService = "resend" => resend # Undefined
  /\ emailService \in {"gmail", "ethereal"} => transporter # Undefined

\* C9: whenever a handler of GET /health or POST /contact can run, the value
\* of emailService it observes is a provider or 'disabled', never a
\* placeholder, and a provider is never observable without its client.
C9_ObservedProviderEnumerated ==
  /\ Serving => ClientSetForProvider
  /\ \A r \in Reqs :
       /\ req[r].kind = "health" =>
            req[r].responses[1].emailService \in Providers \cup {"disabled"}
       /\ (req[r].kind = "contact" /\ req[r].seen # "unread") =>
            req[r].seen \in Providers \cup {"disabled"}

\* C10: once the startup selection has completed, emailService, transporter,
\* the Resend client and the SendGrid key never change again; they are written
\* only by the steps of the one-shot selection, never by a step of a request.
C10_ProviderStateFrozen ==
  [][ /\ initPc = "done" => (initPc' = "done" /\ UNCHANGED providerState)
      /\ providerState' # providerState => (initPc # "done" /\ UNCHANGED req)
    ]_vars

\* after the selection one contact request has failed at its provider and
\* another one has succeeded
C10_Witness ==
  /\ initPc = "done"
  /\ emailService \in Providers
  /\ \E r1, r2 \in Reqs :
       /\ IsContact(r1) /\ req[r1].pc = "done" /\ req[r1].sends # << >>
       /\ req[r1].responses[1].status = 500
       /\ IsContact(r2) /\ req[r2].pc = "done" /\ Len(req[r2].sends) = 2
       /\ req[r2].responses[1].status = 200


\* the mail account is configured and no HTTP-API key is
SmtpAccountOnly ==
  /\ env.EMAIL_USER /\ env.EMAIL_PASSWORD
  /\ ~env.SENDGRID_API_KEY
  /\ ~env.RESEND_API_KEY

\* C11 as stated: with the mail account configured and no HTTP-API key, the
\* selection ends with the mail account selected without any connectivity
\* check (it never goes on to the Ethereal step or to 'disabled'), and every
\* valid POST /contact handled afterwards sends through the mail account
\* transport and answers a failed send with a 500 failure.
C11_SmtpAccountStaysSelected ==
  (SmtpAccountOnly /\ Serving) =>
     /\ initPc = "done"
     /\ emailService = "gmail"
     /\ transporter = "gmailTransport"
     /\ testAccount = Undefined
     /\ \A r \in Reqs :
          ValidContact(r) =>
             /\ req[r].seen = "gmail"
             /\ req[r].sends # << >>
             /\ \A i \in 1..Len(req[r].sends) :
                  /\ req[r].sends[i].via = "gmailTransport"
                  /\ req[r].sends[i].status = "failed" => Answered500(r)

\* C11 amended: with the mail account configured and no HTTP-API key, the
\* selection never goes on to the Ethereal step; it ends with the mail account
\* selected without any connectivity check, unless creating its transport
\* threw, which ends it in 'disabled' with no transport.  While the mail
\* account is selected every valid POST /contact sends through its transport
\* and answers a failed send with a 500 failure.
C11_SmtpAccountSelectedUnlessSetupThrows ==
  (SmtpAccountOnly /\ Serving) =>
     /\ initPc = "done"
     /\ testAccount = Undefined
     /\ setupThrew => (emailService = "disabled" /\ transporter = Undefined)
     /\ ~setupThrew =>
          /\ emailService = "gmail"
          /\ transporter = "gmailTransport"
          /\ \A r \in Reqs :
               ValidContact(r) =>
                  /\ req[r].seen = "gmail"
                  /\ req[r].sends # << >>
                  /\ \A i \in 1..Len(req[r].sends) :
                       /\ req[r].sends[i].via = "gmailTransport"
                       /\ req[r].sends[i].status = "failed" => Answered500(r)

\* with only the mail account configured a send was refused by the SMTP
\* server and the request was answered
C11_Witness ==
  /\ SmtpAccountOnly
  /\ \E r \in Reqs :
       /\ ValidContact(r) /\ req[r].pc = "done"
       /\ req[r].seen = "gmail"
       /\ req[r].sends # << >>
       /\ req[r].sends[Len(req[r].sends)].status = "failed"
       /\ req[r].responses[1].error[3] = "EAUTH"

\* C12: the startup selection runs once and is never run again; when the
\* creation of the test account fails or the set-up of a client throws the
\* provider becomes 'disabled', the server goes on handling requests, and
\* nothing moves the provider out of 'disabled' afterwards.
C12_SelectionOneShot ==
  /\ [](setupThrew => (emailService = "disabled" /\ initPc = "done"))
  /\ [](emailService = "disabled" =>
          /\ initPc = "done"
          /\ \A r \in Reqs :
               req[r].pc = "idle" =>
                  /\ ENABLED HealthRequest(r)
                  /\ ENABLED ChatRequest(r, " hello ")
                  /\ ENABLED ContactRequest(r, ValidBody))
  /\ [][ /\ initPc # "start" => initPc' # "start"
         /\ initPc = "done" => initPc' = "done"
         /\ (testAccount = "pending" /\ testAccount' = "rejected") =>
               (emailService' = "disabled" /\ initPc' = "done")
         /\ testAccount = "rejected" => testAccount' = "rejected"
         /\ (~setupThrew /\ setupThrew') =>
               (emailService' = "disabled" /\ initPc' = "done")
         /\ setupThrew => setupThrew'
         /\ emailService = "disabled" => emailService' = "disabled"
       ]_vars

\* the selection failed (the test account could not be created, or the set-up
\* of the Resend client threw) and the server answered a health check
\* afterwards
C12_Witness ==
  /\ testAccount = "rejected" \/ (setupThrew /\ env.RESEND_API_KEY)
  /\ emailService = "disabled"
  /\ \E r \in Reqs : req[r].kind = "health" /\ req[r].seen = "disabled"

\* request r is a POST /chat whose message has text
ChatWithText(r) == req[r].kind = "chat" /\ req[r].body.message = " hello "

\* the status the claim assigns to the outcome of the upstream call
StatusForUpstream(r) ==
  IF req[r].upstreamStatus = 401 THEN 401
  ELSE IF req[r].upstreamStatus = 429 THEN 429
  ELSE IF req[r].upstreamStatus # 200 THEN 500
  ELSE IF req[r].completion \in {Undefined, ""} THEN 500
  ELSE 200

\* C13: a POST /chat with a non-empty message calls the upstream completion
\* exactly once, and its response status follows the outcome: upstream 401
\* gives 401, upstream 429 gives 429, any other upstream error 500, an empty
\* completion 500, otherwise 200 with success:true and the completion text.
C13_ChatStatusFollowsUpstream ==
  \A r \in Reqs :
    ChatWithText(r) =>
       /\ req[r].upstreamCalls = 1
       /\ req[r].pc = "done" =>
            /\ Len(req[r].responses) = 1
            /\ req[r].responses[1].status = StatusForUpstream(r)
            /\ req[r].responses[1].status = 200 =>
                 /\ req[r].responses[1].success = TRUE
                 /\ req[r].responses[1].reply = req[r].completion

\* C14: a POST /chat whose message is missing, empty or only whitespace is
\* answered 400 with success:false and "Message is required", and the
\* upstream completion API is not called for it.
C14_BlankChatRejected ==
  \A r \in Reqs :
    (req[r].kind = "chat" /\ req[r].body.message \in {Undefined, "", "  "}) =>
       /\ req[r].pc = "done"
       /\ req[r].upstreamCalls = 0
       /\ req[r].upstreamStatus = 0
       /\ Len(req[r].responses) = 1
       /\ req[r].responses[1].status = 400
       /\ req[r].responses[1].success = FALSE
       /\ req[r].responses[1].error = <<"Message is required">>

\* a chat request with a whitespace-only message was answered
C14_Witness ==
  \E r \in Reqs :
    /\ req[r].kind = "chat" /\ req[r].body.message = "  "
    /\ req[r].pc = "done"

\* the submissions of the one body ValidBody handled while a provider was
\* selected
SameSubmissions ==
  {r \in Reqs : ValidContact(r) /\ req[r].body = ValidBody /\ req[r].seen \in Providers}

\* those of them that are finished and had no send fail
DeliveredSubmissions ==
  {r \in SameSubmissions :
     /\ req[r].pc = "done"
     /\ \A i \in 1..Len(req[r].sends) : req[r].sends[i].status = "ok"}

\* C15: N submissions of the same valid contact request with a healthy
\* provider are N independent dispatches: each one sends its own notification
\* and confirmation (2N sends) and gets its own success response, none is
\* suppressed or answered from an earlier one, and a step of one request
\* leaves every other request as it was.
C15_RepeatsDispatchIndependently ==
  /\ [](/\ \A r \in SameSubmissions :
             /\ req[r].sends # << >>
             /\ req[r].sends[1].msg.to = OperatorAddress
        /\ \A r \in DeliveredSubmissions :
             /\ Len(req[r].sends) = 2
             /\ req[r].sends[2].msg.to = ValidBody.email
             /\ req[r].responses = << [status |-> 200, success |-> TRUE,
                                       message |-> "Email sent successfully",
                                       service |-> req[r].seen] >>
        /\ Cardinality({<<r, i>> \in Reqs \X (1..2) :
                          r \in DeliveredSubmissions /\ i <= Len(req[r].sends)})
             = 2 * Cardinality(DeliveredSubmissions))
  /\ [][\A r1, r2 \in Reqs :
          (r1 # r2 /\ req'[r1] # req[r1]) => req'[r2] = req[r2]]_vars

\* the same valid request was submitted twice and delivered twice
C15_Witness ==
  /\ Cardinality(DeliveredSubmissions) >= 2
  /\ \E r1, r2 \in DeliveredSubmissions : r1 # r2 /\ req[r1] = req[r2]

\* request r is a contact request waiting for a provider send to settle
SendInFlight(r) ==
  IsContact(r) /\ req[r].pc \in {"awaitNotification", "awaitConfirmation"}

\* C16: while a provider send of one POST /contact has not completed, every
\* other request can take its next step: a request that has not started can
\* be handled as /health, /chat or /contact, and one that waits for its own
\* upstream call or send goes on as soon as that settles; nothing waits for
\* the other request's send.
C16_HungSendBlocksOnlyItsRequest ==
  \A r1 \in Reqs :
    SendInFlight(r1) =>
      \A r2 \in Reqs \ {r1} :
        /\ req[r2].pc = "idle" =>
             /\ ENABLED HealthRequest(r2)
             /\ ENABLED ChatRequest(r2, " hello ")
             /\ ENABLED ContactRequest(r2, ValidBody)
        /\ req[r2].pc = "awaitCompletion" =>
             /\ ENABLED ChatCompletionResolves(r2, "Hi there")
             /\ ENABLED ChatCompletionRejects(r2, 429)
        /\ SendInFlight(r2) =>
             /\ ENABLED ContactSendResolves(r2)
             /\ ENABLED ContactSendRejects(r2, "ETIMEDOUT")

\* one request is still waiting for its notification send while another
\* contact request has been through both of its sends and was answered
C16_Witness ==
  \E r1, r2 \in Reqs :
    /\ r1 # r2
    /\ SendInFlight(r1) /\ req[r1].pc = "awaitNotification"
    /\ IsContact(r2) /\ req[r2].pc = "done" /\ Len(req[r2].sends) = 2
    /\ req[r2].responses[1].status = 200

\* C17: a POST /contact whose provider calls each return or fail gets exactly
\* one response: a response is written exactly when the handler finishes,
\* never a second one, a written response is not replaced, and from some
\* point on every contact request that has arrived stays answered (requests
\* are finitely many and an answered one stays answered, so this is "each one
\* is answered in the end"), on the validation, provider, disabled and
\* not-initialized paths and through the catch.
C17_ExactlyOneResponse ==
  /\ [](\A r \in Reqs :
          IsContact(r) =>
             /\ Len(req[r].responses) <= 1
             /\ req[r].pc = "done" <=> Len(req[r].responses) = 1)
  /\ [][\A r \in Reqs :
          (IsContact(r) /\ req[r].responses # << >>) =>
             req'[r].responses = req[r].responses]_vars
  /\ <>[](\A r \in Reqs :
            IsContact(r) => (req[r].pc = "done" /\ Len(req[r].responses) = 1))

\* one request was answered by the catch after its second send failed, another
\* one by the disabled or not-initialized path
C17_Witness ==
  \E r1, r2 \in Reqs :
    /\ IsContact(r1) /\ req[r1].pc = "done" /\ Len(req[r1].sends) = 2
    /\ req[r1].responses[1].status = 500
    /\ ValidContact(r2) /\ req[r2].pc = "done" /\ req[r2].sends = << >>

\* request r was answered with the success of a sent email
AnsweredSent(r) ==
  /\ IsContact(r)
  /\ req[r].responses # << >>
  /\ req[r].responses[1].success = TRUE
  /\ req[r].responses[1].service # "disabled"

\* C18: a POST /contact answered 'Email sent successfully' has had both its
\* notification and its confirmation delivered, and the service of the
\* response is the provider both sends went through, whatever the startup
\* selection and other requests did in between.
C18_SuccessMeansBothSent ==
  \A r \in Reqs :
    AnsweredSent(r) =>
       /\ req[r].responses[1].message = "Email sent successfully"
       /\ Len(req[r].sends) = 2
       /\ \A i \in 1..2 :
            /\ req[r].sends[i].status = "ok"
            /\ ProviderOfClient(req[r].sends[i].via) = req[r].responses[1].service
       /\ req[r].sends[1].msg.to = OperatorAddress
       /\ req[r].sends[2].msg.to = req[r].body.email

\* a request handled while the selection was pending was refused, and a later
\* one was delivered through the Ethereal account the selection ended with
C18_Witness ==
  \E r1, r2 \in Reqs :
    /\ HandledDuringSelection(r1)
    /\ AnsweredSent(r2)
    /\ req[r2].responses[1].service = "ethereal"

====
